---- MODULE Spec2Model ----
(***************************************************************************)
(* Model of the YARA compiler session (src/src/compiler/mod.rs) and of the *)
(* `string` module's exported functions (src/yara-x/src/modules/string.rs).*)
(*                                                                         *)
(* A session is a Compiler value.  add_source, build and emit_wasm_file    *)
(* take it by value: a call that returns Err drops the value, a call to    *)
(* build or emit_wasm_file consumes it.  The entry function of the         *)
(* generated module is a sequence of one block per rule; a scan runs it.   *)
(***************************************************************************)
EXTENDS Integers, Sequences, FiniteSets, TLC

VARIABLES
    state,       \* where the Compiler value is: "Empty", "Accumulating",
                 \* "Dropped" (add_source returned Err), "Built", "Emitted",
                 \* "Aborted" (build panicked)
    sym_tbl,     \* Compiler.sym_tbl: the module names inserted
    ident_pool,  \* Compiler.ident_pool: sequence of texts, IdentId = index - 1
    rules,       \* Compiler.rules: sequence of CompiledRule
    patterns,    \* Compiler.patterns: sequence of Pattern
    warnings,    \* Compiler.warnings
    main_fn,     \* the blocks emitted into wasm_mod.main_fn(), in order
    call,        \* the last call made on the session and its result
    artifact,    \* the CompiledRules returned by build()
    wasm_file,   \* what emit_wasm_file wrote
    scan,        \* one run of the entry function over the artifact
    ctx,         \* the Contexts the last add_source call created, one per rule
    fn_in,       \* arguments of a call of an exported string function
    fn_out       \* its result

vars == <<state, sym_tbl, ident_pool, rules, patterns, warnings, main_fn,
          call, artifact, wasm_file, scan, ctx, fn_in, fn_out>>

session_vars == <<state, sym_tbl, ident_pool, rules, patterns, warnings,
                  main_fn, call, artifact, wasm_file, scan, ctx>>

(***************************************************************************)
(* Bounds of the model.                                                    *)
(***************************************************************************)
MaxStrLen == 3        \* longest argument string of the string-function runs
MaxNsRules == 2       \* most rules in one namespace of a generated source
MaxNsImports == 2     \* most imports in one namespace of a generated source
MaxTableRules == 2    \* add_source is not tried beyond this many rules
MaxWarnings == 2      \* a source with parser warnings is not tried beyond this many warnings

(***************************************************************************)
(* Sequence helpers.                                                       *)
(***************************************************************************)
RECURSIVE SeqsUpTo(_, _)
SeqsUpTo(S, n) ==
    IF n = 0 THEN {<<>>}
    ELSE LET shorter == SeqsUpTo(S, n - 1)
         IN  shorter \cup {Append(q, x) : q \in {p \in shorter : Len(p) = n - 1}, x \in S}

Range(q) == {q[i] : i \in 1..Len(q)}

RECURSIVE Pow(_, _)
Pow(b, n) == IF n = 0 THEN 1 ELSE b * Pow(b, n - 1)

(***************************************************************************)
(* Strings are sequences of one-character strings; "\\xff" stands for a    *)
(* byte that is not valid UTF-8.                                           *)
(***************************************************************************)
LowerDigits == <<"0","1","2","3","4","5","6","7","8","9",
                 "a","b","c","d","e","f","g","h","i","j","k","l","m",
                 "n","o","p","q","r","s","t","u","v","w","x","y","z">>

UpperDigits == <<"0","1","2","3","4","5","6","7","8","9",
                 "A","B","C","D","E","F","G","H","I","J","K","L","M",
                 "N","O","P","Q","R","S","T","U","V","W","X","Y","Z">>

InvalidByte == "\\xff"

Some(v) == [tag |-> "Some", v |-> v]
None == [tag |-> "None", v |-> 0]
Panic == [tag |-> "Panic", v |-> 0]

\* char::to_digit(radix): Some(value) when c is a digit of that radix.
to_digit(c, radix) ==
    LET hits == {i \in 1..36 : LowerDigits[i] = c \/ UpperDigits[i] = c}
    IN  IF hits = {} THEN None
        ELSE LET d == (CHOOSE i \in hits : TRUE) - 1
             IN  IF d < radix THEN Some(d) ELSE None

\* BStr::to_str: Err when the bytes are not valid UTF-8.
to_str(string) ==
    IF \E i \in 1..Len(string) : string[i] = InvalidByte THEN None ELSE Some(string)

\* The digit loop of i64::from_str_radix: result = result * radix +/- digit,
\* Err at the first character that is no digit of the radix.
RECURSIVE accumulate(_, _, _, _)
accumulate(digits, radix, is_positive, result) ==
    IF digits = <<>> THEN Some(result)
    ELSE LET x == to_digit(Head(digits), radix)
         IN  IF x.tag = "None" THEN None
             ELSE accumulate(Tail(digits), radix, is_positive,
                             IF is_positive THEN result * radix + x.v
                                            ELSE result * radix - x.v)

\* i64::from_str_radix(src, radix): Err on the empty string, on a lone sign
\* and on an invalid digit; one leading + or - is accepted.
from_str_radix(src, radix) ==
    IF src = <<>> THEN None
    ELSE IF Head(src) \in {"+", "-"} /\ Tail(src) = <<>> THEN None
    ELSE IF Head(src) = "+" THEN accumulate(Tail(src), radix, TRUE, 0)
    ELSE IF Head(src) = "-" THEN accumulate(Tail(src), radix, FALSE, 0)
    ELSE accumulate(src, radix, TRUE, 0)

\* string.to_int(s): n.parse::<i64>().unwrap() panics when s is valid text
\* that is not a decimal integer; None only for invalid UTF-8.
to_int(string) ==
    LET n == to_str(string)
    IN  IF n.tag = "None" THEN None
        ELSE LET parsed == from_str_radix(n.v, 10)
             IN  IF parsed.tag = "Some" THEN Some(parsed.v) ELSE Panic

to_int_base_no_range_check(string, base) ==
    LET strobj == to_str(string)
    IN  IF strobj.tag = "None" THEN None
        ELSE from_str_radix(strobj.v, IF base < 2 THEN 10 ELSE base)

\* string.to_int(s, base)
to_int_base(string, base) ==
    IF base < 2 \/ base > 36 THEN None
    ELSE LET strobj == to_str(string)
         IN  IF strobj.tag = "None" THEN None
             ELSE from_str_radix(strobj.v, base)

\* string.length(s)
length(string) == Some(Len(string))

(***************************************************************************)
(* The AST the parser hands to add_source.  A condition is an expression   *)
(* tree; a rule has an identifier, its pattern identifiers in declaration  *)
(* order (no patterns section and an empty one both give no pairs) and a   *)
(* condition; a namespace has imports (module name and span) and rules.    *)
(***************************************************************************)
Lit(b) == [op |-> IF b THEN "true" ELSE "false"]
IntLit(v) == [op |-> "int", v |-> v]
FloatLit(v) == [op |-> "float", v |-> v]
StrLit(s) == [op |-> "str", s |-> s]
Ident(name) == [op |-> "ident", name |-> name]
Call(f, s, base) == [op |-> "call", module |-> "string", f |-> f, s |-> s, base |-> base]
Cmp(rel, l, r) == [op |-> "cmp", rel |-> rel, l |-> l, r |-> r]
Or(l, r) == [op |-> "or", l |-> l, r |-> r]
And(l, r) == [op |-> "and", l |-> l, r |-> r]

\* modules::BUILTIN_MODULES: the registry holds the string module.
BUILTIN_MODULES == {"string"}

(***************************************************************************)
(* Semantic check of a condition: compiler/semcheck.rs, modelled from the   *)
(* specification, section 4.3.                                             *)
(***************************************************************************)
RECURSIVE type_of(_, _)
type_of(root_sym_tbl, expr) ==
    CASE expr.op \in {"true", "false"} -> "Bool"
      [] expr.op = "int" -> "Integer"
      [] expr.op = "float" -> "Float"
      [] expr.op = "str" -> "String"
      [] expr.op = "ident" ->
            IF expr.name \in root_sym_tbl THEN "Struct" ELSE "Unresolved"
      [] expr.op = "call" ->
            IF expr.module \in root_sym_tbl THEN "Integer" ELSE "Unresolved"
      [] expr.op = "cmp" ->
            LET l == type_of(root_sym_tbl, expr.l)
                r == type_of(root_sym_tbl, expr.r)
            IN  IF "Unresolved" \in {l, r} THEN "Unresolved"
                ELSE IF l = "Integer" /\ r = "Integer" THEN "Bool"
                ELSE "Mismatch"
      [] expr.op \in {"or", "and"} ->
            LET l == type_of(root_sym_tbl, expr.l)
                r == type_of(root_sym_tbl, expr.r)
            IN  IF "Unresolved" \in {l, r} THEN "Unresolved"
                ELSE IF {l, r} \subseteq {"Bool", "Integer", "Float", "String"}
                     THEN "Bool"
                ELSE "Mismatch"

\* semcheck!(ctx, allowed, expr): Ok when the inferred type is allowed.
semcheck(root_sym_tbl, allowed, expr) == type_of(root_sym_tbl, expr) \in allowed

condition_types_bool_only == {"Bool"}

\* The types add_source allows for a rule's condition.
condition_types == {"Bool", "Integer", "Float", "String"}

\* warning_if_not_boolean(ctx, expr): the warnings it adds.
warning_if_not_boolean(root_sym_tbl, expr) ==
    IF type_of(root_sym_tbl, expr) = "Bool" THEN <<>> ELSE <<"non_boolean_as_boolean">>

(***************************************************************************)
(* The compiler's data.                                                    *)
(***************************************************************************)
get_or_intern_always_new(pool, text) ==
    [pool |-> Append(pool, text), id |-> Len(pool)]

\* StringInterner::get_or_intern: the symbol of a text already in the pool,
\* or the next symbol.  Returns the pool and the IdentId.
get_or_intern(pool, text) ==
    IF \E i \in 1..Len(pool) : pool[i] = text
    THEN [pool |-> pool, id |-> (CHOOSE i \in 1..Len(pool) : pool[i] = text) - 1]
    ELSE [pool |-> Append(pool, text), id |-> Len(pool)]

\* StringInterner::resolve
resolve(pool, id) == IF id + 1 \in 1..Len(pool) THEN Some(pool[id + 1]) ELSE None

Pattern == "Pattern"

\* Compiler::new()
new == [sym_tbl |-> {}, ident_pool |-> <<>>, rules |-> <<>>, patterns |-> <<>>,
        warnings |-> <<>>, main_fn |-> <<>>]

Ok(c) == [ok |-> TRUE, self |-> c, err |-> [kind |-> "none", module_name |-> "", span |-> <<>>]]
Err(c, kind, module_name, span) ==
    [ok |-> FALSE, self |-> c, err |-> [kind |-> kind, module_name |-> module_name, span |-> span]]

RECURSIVE process_imports_skipping_unknown(_, _)
process_imports_skipping_unknown(c, imports) ==
    IF imports = <<>> THEN Ok(c)
    ELSE process_imports_skipping_unknown(
             [c EXCEPT !.sym_tbl = @ \cup ({Head(imports).module_name} \cap BUILTIN_MODULES)],
             Tail(imports))

process_imports_scoped(c, imports) ==
    LET unknown == {j \in 1..Len(imports) : imports[j].module_name \notin BUILTIN_MODULES}
    IN  IF unknown = {}
        THEN Ok([c EXCEPT !.sym_tbl = {imports[j].module_name : j \in 1..Len(imports)}])
        ELSE LET import == imports[CHOOSE j \in unknown : \A k \in unknown : j <= k]
             IN  Err(c, "unknown_module", import.module_name, import.span)

\* Compiler::process_imports: inserts each known module into the symbol
\* table and returns Err at the first unknown one.
RECURSIVE process_imports(_, _)
process_imports(c, imports) ==
    IF imports = <<>> THEN Ok(c)
    ELSE LET import == Head(imports)
         IN  IF import.module_name \in BUILTIN_MODULES
             THEN process_imports(
                      [c EXCEPT !.sym_tbl = @ \cup {import.module_name}],
                      Tail(imports))
             ELSE Err(c, "unknown_module", import.module_name, import.span)

RECURSIVE register_patterns_dedup(_, _, _)
register_patterns_dedup(c, decls, pairs) ==
    IF decls = <<>> THEN [self |-> c, pairs |-> pairs]
    ELSE LET interned == get_or_intern(c.ident_pool, Head(decls))
             pattern_id == Len(c.patterns)
         IN  IF \E i \in 1..Len(pairs) : pairs[i][1] = interned.id
             THEN register_patterns_dedup(c, Tail(decls), pairs)
             ELSE register_patterns_dedup(
                      [c EXCEPT !.ident_pool = interned.pool,
                                !.patterns = Append(@, Pattern)],
                      Tail(decls),
                      Append(pairs, <<interned.id, pattern_id>>))

\* The pattern loop of add_source: one (IdentId, PatternId) pair per declared
\* pattern, the PatternId being the length of the pattern table at the push.
RECURSIVE register_patterns(_, _, _)
register_patterns(c, decls, pairs) ==
    IF decls = <<>> THEN [self |-> c, pairs |-> pairs]
    ELSE LET interned == get_or_intern(c.ident_pool, Head(decls))
             pattern_id == Len(c.patterns)
         IN  register_patterns(
                 [c EXCEPT !.ident_pool = interned.pool,
                           !.patterns = Append(@, Pattern)],
                 Tail(decls),
                 Append(pairs, <<interned.id, pattern_id>>))

rule_id_off_by_one(c) == Len(c.rules) + 1

\* let rule_id = self.rules.len() as RuleId
next_rule_id(c) == Len(c.rules)

\* The constant the except branch of the outer handler pushes.
except_value == 0

rule_block_except_one(condition, rule_id) ==
    [try |-> condition, except |-> 1, rule_id |-> rule_id]

\* The block add_source emits into the entry function for one rule:
\* try_except(condition, except: i32.const 0); i32.eqz; br_if;
\* i32.const rule_id; call rule_match.
rule_block(condition, rule_id) ==
    [try |-> condition, except |-> except_value, rule_id |-> rule_id]

\* The body of the rule loop of add_source for one rule.
compile_rule(c, rule) ==
    LET reg == register_patterns(c, rule.patterns, <<>>)
        rule_id == next_rule_id(reg.self)
        interned == get_or_intern(reg.self.ident_pool, rule.identifier)
        pushed == [reg.self EXCEPT
                      !.ident_pool = interned.pool,
                      !.rules = Append(@, [ident |-> interned.id, patterns |-> reg.pairs])]
    IN  IF ~semcheck(pushed.sym_tbl, condition_types, rule.condition)
        THEN Err(pushed, "compile_error", "", <<>>)
        ELSE Ok([pushed EXCEPT
                    !.warnings = @ \o warning_if_not_boolean(pushed.sym_tbl, rule.condition),
                    !.main_fn = Append(@, rule_block(rule.condition, rule_id))])

RECURSIVE compile_rules(_, _)
compile_rules(c, rs) ==
    IF rs = <<>> THEN Ok(c)
    ELSE LET r == compile_rule(c, Head(rs))
         IN  IF r.ok THEN compile_rules(r.self, Tail(rs)) ELSE r

\* The namespace loop of add_source: imports first, then the rules.
RECURSIVE compile_namespaces(_, _)
compile_namespaces(c, nss) ==
    IF nss = <<>> THEN Ok(c)
    ELSE LET imp == process_imports(c, Head(nss).imports)
         IN  IF ~imp.ok THEN imp
             ELSE LET r == compile_rules(imp.self, Head(nss).rules)
                  IN  IF r.ok THEN compile_namespaces(r.self, Tail(nss)) ELSE r

\* Compiler::add_source as a function of the session and the source: the
\* value of self when the function returns, and the result.
add_source(c, src) ==
    IF ~src.parse_ok THEN Err(c, "parse_error", "", <<>>)
    ELSE compile_namespaces([c EXCEPT !.warnings = @ \o src.warnings], src.namespaces)

(***************************************************************************)
(* Evaluation of the generated code.  The code compiler/emit.rs emits for  *)
(* a condition is modelled from the specification, section 4.4.  A value   *)
(* is Some(v); None is an undefined raised to the enclosing handler; Panic *)
(* is a host function that panicked.                                       *)
(***************************************************************************)
call_export(f, s, base) ==
    CASE f = "length" -> length(s)
      [] f = "to_int" -> to_int(s)
      [] f = "to_int_base" -> to_int_base(s, base)

compare(rel, a, b) ==
    CASE rel = "==" -> a = b
      [] rel = "<" -> a < b
      [] rel = ">" -> a > b

truthy(r) == IF r.tag = "Some" THEN Some(IF r.v # 0 THEN 1 ELSE 0) ELSE r

\* An operand of and/or runs under its own handler, whose except branch
\* pushes false.
catch_undef(r) == IF r.tag = "None" THEN Some(0) ELSE r

RECURSIVE emit_expr(_)
emit_expr(expr) ==
    CASE expr.op = "true" -> Some(1)
      [] expr.op = "false" -> Some(0)
      [] expr.op = "int" -> Some(expr.v)
      [] expr.op = "float" -> Some(expr.v)
      [] expr.op = "str" -> Some(Len(expr.s))
      [] expr.op = "ident" -> None
      [] expr.op = "call" -> call_export(expr.f, expr.s, expr.base)
      [] expr.op = "cmp" ->
            LET l == emit_expr(expr.l)
            IN  IF l.tag # "Some" THEN l
                ELSE LET r == emit_expr(expr.r)
                     IN  IF r.tag # "Some" THEN r
                         ELSE Some(IF compare(expr.rel, l.v, r.v) THEN 1 ELSE 0)
      [] expr.op = "or" ->
            LET l == catch_undef(truthy(emit_expr(expr.l)))
            IN  IF l.tag = "Panic" THEN l
                ELSE IF l.v # 0 THEN Some(1)
                ELSE catch_undef(truthy(emit_expr(expr.r)))
      [] expr.op = "and" ->
            LET l == catch_undef(truthy(emit_expr(expr.l)))
            IN  IF l.tag = "Panic" THEN l
                ELSE IF l.v = 0 THEN Some(0)
                ELSE catch_undef(truthy(emit_expr(expr.r)))

\* emit_bool_expr: the condition's value as a boolean.
emit_bool_expr(expr) == truthy(emit_expr(expr))

\* One run of a rule's block: the try branch leaves the condition's value,
\* an undefined that reaches the outer handler runs the except branch; a zero
\* value branches out of the block, any other calls rule_match(rule_id).
exec_block(block) ==
    LET r == emit_bool_expr(block.try)
    IN  IF r.tag = "Panic"
        THEN [outcome |-> "abort", branch |-> "try", value |-> 0, matched |-> FALSE]
        ELSE LET value == IF r.tag = "None" THEN block.except ELSE r.v
             IN  [outcome |-> "next",
                  branch |-> IF r.tag = "None" THEN "except" ELSE "try",
                  value |-> value,
                  matched |-> value # 0]

(***************************************************************************)
(* The sources add_source is called with.                                  *)
(***************************************************************************)
Rule(identifier, pattern_idents, condition) ==
    [identifier |-> identifier, patterns |-> pattern_idents, condition |-> condition]

\* The parser's namespaces for a sequence of [imports, rules]: the span of
\* an import is its position in the source.
Namespaces(nss) ==
    [i \in 1..Len(nss) |->
        [imports |-> [j \in 1..Len(nss[i].imports) |->
                         [module_name |-> nss[i].imports[j], span |-> <<i, j>>]],
         rules |-> nss[i].rules]]

Source(nss, parser_warnings) ==
    [parse_ok |-> TRUE, warnings |-> parser_warnings, namespaces |-> Namespaces(nss)]

SyntaxErrorSource == [parse_ok |-> FALSE, warnings |-> <<>>, namespaces |-> <<>>]

Ns(imports, rs) == [imports |-> imports, rules |-> rs]

Undefined == Cmp("==", Call("to_int_base", <<"-","0","1","1">>, 0), IntLit(-9))

RuleTrue == Rule("a", <<"$a">>, Lit(TRUE))
RuleInt == Rule("b", <<"$a", "$a">>, IntLit(1))
RuleUndef == Rule("a", <<>>, Undefined)
RuleUndefOrTrue == Rule("c", <<"$a", "$b">>, Or(Undefined, Lit(TRUE)))
RuleStruct == Rule("d", <<"$b">>, Ident("string"))
RulePanic == Rule("e", <<>>, Cmp("==", Call("to_int", <<"x">>, 0), IntLit(0)))
RuleLength == Rule("f", <<"$c">>,
                   Cmp("<", Call("length", <<"A","X","s","x","0","0","E","R","S">>, 0), IntLit(9)))

RuleFloat == Rule("g", <<>>, FloatLit(2))
RuleStr == Rule("h", <<"$a">>, StrLit(<<"x">>))
RuleEmptyStr == Rule("a", <<>>, StrLit(<<>>))

SampleRules == {RuleTrue, RuleInt, RuleUndef, RuleUndefOrTrue, RuleStruct, RulePanic}

ModuleNames == {"string", "nope"}

\* One namespace that imports the string module, any rules.
RuleSources ==
    {Source(<<Ns(<<"string">>, rs)>>, <<>>) : rs \in SeqsUpTo(SampleRules, MaxNsRules)}

\* One namespace, any imports.
ImportSources ==
    {Source(<<Ns(im, rs)>>, <<>>) :
        im \in SeqsUpTo(ModuleNames, MaxNsImports), rs \in {<<>>, <<RuleTrue>>, <<RuleUndef>>}}

\* Two namespaces.
TwoNamespaceSources ==
    {Source(<<Ns(im1, rs1), Ns(im2, rs2)>>, <<>>) :
        im1 \in {<<>>, <<"string">>}, rs1 \in {<<>>, <<RuleTrue>>, <<RuleUndef>>},
        im2 \in {<<>>, <<"string">>, <<"nope">>, <<"string", "nope">>},
        rs2 \in {<<>>, <<RuleInt>>, <<RuleLength>>}}

\* Sources for which the parser reports a warning.
WarningSources ==
    {Source(<<Ns(<<>>, rs)>>, <<"parser_warning">>) : rs \in {<<>>, <<RuleTrue>>, <<RuleInt>>}}

\* One namespace without imports whose rules have float and string conditions.
CoercionSources ==
    {Source(<<Ns(<<>>, rs)>>, <<>>) :
        rs \in {<<RuleFloat>>, <<RuleStr, RuleInt>>, <<RuleEmptyStr, RuleTrue>>}}

E2ECall(f, s, base, rel, k) == Cmp(rel, Call(f, s, base), IntLit(k))

\* The source of tests::end2end.
EndToEndSource ==
    LET s9 == <<"A","X","s","x","0","0","E","R","S">>
    IN  Source(<<Ns(<<"string">>, <<
            Rule("rule_1", <<>>, E2ECall("length", s9, 0, "==", 9)),
            Rule("rule_2", <<>>, E2ECall("length", s9, 0, "==", 9)),
            Rule("rule_3", <<>>, E2ECall("length", s9, 0, ">", 9)),
            Rule("rule_4", <<>>, E2ECall("length", s9, 0, "<", 9)),
            Rule("rule_5", <<>>, E2ECall("to_int", <<"1","2","3","4">>, 0, "==", 1234)),
            Rule("rule_6", <<>>, E2ECall("to_int", <<"-","1","0">>, 0, "==", -10)),
            Rule("rule_7", <<>>, E2ECall("to_int", <<"-","1","0">>, 0, "==", -8)),
            Rule("rule_8", <<>>, E2ECall("to_int_base", <<"A">>, 16, "==", 10)),
            Rule("rule_9", <<>>, E2ECall("to_int_base", <<"0","1","1">>, 8, "==", 9)),
            Rule("rule_10", <<>>, E2ECall("to_int_base", <<"-","0","1","1">>, 0, "==", -9))
        >>)>>, <<>>)

Sources ==
    RuleSources \cup ImportSources \cup TwoNamespaceSources \cup WarningSources
        \cup CoercionSources \cup {SyntaxErrorSource, EndToEndSource}

RECURSIVE NumRules(_)
NumRules(nss) == IF nss = <<>> THEN 0 ELSE Len(Head(nss).rules) + NumRules(Tail(nss))

\* The rules of a source in declaration order, over all its namespaces.
RECURSIVE FlatRules(_)
FlatRules(nss) == IF nss = <<>> THEN <<>> ELSE Head(nss).rules \o FlatRules(Tail(nss))

(***************************************************************************)
(* The Context of one rule's compilation and the emission of its block.    *)
(* try_except and the emitters are in compiler/emit.rs: the handler stack  *)
(* they keep is modelled from the specification, section 4.4.  An emission *)
(* is a Context and the log of the instructions emitted so far, each with  *)
(* the handler stack at that moment.                                       *)
(***************************************************************************)
\* let mut ctx = Context { current_rule: self.rules.last().unwrap(), ..,
\*                         exception_handler_stack: Vec::new(), raise_emitted: false }
Context(current_rule, pool) ==
    [current_rule |-> current_rule, ident_pool |-> pool,
     exception_handler_stack |-> <<>>, raise_emitted |-> FALSE]

\* Context::get_pattern_from_current_rule: the PatternId of the first pair of
\* the current rule whose identifier is ident; panics when there is none.
get_pattern_from_current_rule(context, ident) ==
    LET pairs == context.current_rule.patterns
        hits == {i \in 1..Len(pairs) : resolve(context.ident_pool, pairs[i][1]) = Some(ident)}
    IN  IF hits = {} THEN Panic
        ELSE Some(pairs[CHOOSE i \in hits : \A j \in hits : i <= j][2])

\* One instruction is emitted; raise says whether it raises undefined, which
\* is a branch to the innermost handler.
emit_instr(e, part, raise) ==
    [e EXCEPT !.log = Append(@, [part |-> part,
                                 stack |-> e.ctx.exception_handler_stack,
                                 raise |-> raise]),
              !.ctx.raise_emitted = raise]

\* try_except pushes the frame (type, block id) of its block ...
push_handler(e, rule_id) ==
    [e EXCEPT !.ctx.exception_handler_stack =
                  Append(@, [ty |-> "I32", block |-> <<rule_id, Len(@) + 1>>])]

\* ... and pops it when the try branch has been emitted.
pop_handler(e) ==
    [e EXCEPT !.ctx.exception_handler_stack = SubSeq(@, 1, Len(@) - 1)]

\* The instructions emitted for an expression: a call of a module function
\* can raise; each operand of and/or is emitted under its own handler.
RECURSIVE emit_code(_, _, _)
emit_code(e, rule_id, expr) ==
    CASE expr.op \in {"call", "ident"} -> emit_instr(e, "condition", TRUE)
      [] expr.op = "cmp" ->
            emit_instr(emit_code(emit_code(e, rule_id, expr.l), rule_id, expr.r),
                       "condition", FALSE)
      [] expr.op \in {"or", "and"} ->
            LET l == emit_instr(
                         pop_handler(emit_code(push_handler(e, rule_id), rule_id, expr.l)),
                         "condition", FALSE)
                r == emit_instr(
                         pop_handler(emit_code(push_handler(l, rule_id), rule_id, expr.r)),
                         "condition", FALSE)
            IN  emit_instr(r, "condition", FALSE)
      [] OTHER -> emit_instr(e, "condition", FALSE)

rule_emission_without_handler(current_rule, pool, rule_id, condition) ==
    LET e == [ctx |-> Context(current_rule, pool), log |-> <<>>]
        done == emit_instr(emit_code(e, rule_id, condition), "except", FALSE)
    IN  [rule_id |-> rule_id, start |-> e.ctx, log |-> done.log, end |-> done.ctx]

\* The emission of one rule's block under its Context: try_except(&ctx,
\* block, I32, try: emit_bool_expr(condition), except: i32.const 0).
rule_emission(current_rule, pool, rule_id, condition) ==
    LET e == [ctx |-> Context(current_rule, pool), log |-> <<>>]
        tried == emit_code(push_handler(e, rule_id), rule_id, condition)
        done == emit_instr(pop_handler(tried), "except", FALSE)
    IN  [rule_id |-> rule_id, start |-> e.ctx, log |-> done.log, end |-> done.ctx]

\* A Context whose rule failed the semantic check: nothing is emitted.
rule_rejected(current_rule, pool, rule_id) ==
    [rule_id |-> rule_id, start |-> Context(current_rule, pool), log |-> <<>>,
     end |-> Context(current_rule, pool)]

\* The identifier pool when the i-th rule of the table d.rules is compiled:
\* the texts interned for the rules 1..i.
pool_at(d, i) ==
    LET handles == UNION {{d.rules[k].ident}
                             \cup {d.rules[k].patterns[j][1] : j \in 1..Len(d.rules[k].patterns)} :
                          k \in 1..i}
    IN  SubSeq(d.ident_pool, 1, 1 + CHOOSE h \in handles : \A g \in handles : g <= h)

\* The Contexts an add_source call creates: one for each rule it pushes to
\* the rule table, from c (before the call) to d (when it returns).
contexts(c, d, src) ==
    [k \in 1..(Len(d.rules) - Len(c.rules)) |->
        LET i == Len(c.rules) + k
        IN  IF i <= Len(d.main_fn)
            THEN rule_emission(d.rules[i], pool_at(d, i), d.main_fn[i].rule_id,
                               FlatRules(src.namespaces)[k].condition)
            ELSE rule_rejected(d.rules[i], pool_at(d, i), i - 1)]

(***************************************************************************)
(* The state machine.                                                      *)
(***************************************************************************)
NoCall == [op |-> "none", src |-> SyntaxErrorSource, result |-> Ok(new).err, ok |-> TRUE]
NoArtifact == [built |-> FALSE, ident_pool |-> <<>>, patterns |-> <<>>,
               rules |-> <<>>, main_fn |-> <<>>]
NoScan == [status |-> "idle", pc |-> 1, matches |-> <<>>, log |-> <<>>]
NoFnIn == [s |-> <<>>, base |-> 0]
NoFnOut == [f |-> "none", res |-> None]

self == [sym_tbl |-> sym_tbl, ident_pool |-> ident_pool, rules |-> rules,
         patterns |-> patterns, warnings |-> warnings, main_fn |-> main_fn]

\* The session's fields become those of c.
Becomes(c) ==
    /\ sym_tbl' = c.sym_tbl
    /\ ident_pool' = c.ident_pool
    /\ rules' = c.rules
    /\ patterns' = c.patterns
    /\ warnings' = c.warnings
    /\ main_fn' = c.main_fn

Live_after_build == state \in {"Empty", "Accumulating", "Built"}

\* add_source, build and emit_wasm_file take self by value: they can be
\* called only while the caller still holds the Compiler.
Live == state \in {"Empty", "Accumulating"}

InitSession ==
    /\ state = "Empty"
    /\ sym_tbl = new.sym_tbl
    /\ ident_pool = new.ident_pool
    /\ rules = new.rules
    /\ patterns = new.patterns
    /\ warnings = new.warnings
    /\ main_fn = new.main_fn
    /\ call = NoCall
    /\ artifact = NoArtifact
    /\ wasm_file = [written |-> FALSE, module |-> <<>>]
    /\ scan = NoScan
    /\ ctx = <<>>

Init == InitSession /\ fn_in = NoFnIn /\ fn_out = NoFnOut

\* compiler.add_source(src): Ok(self) keeps the session; on Err the
\* Compiler value, which the call took by value, is dropped.
AddSource(src) ==
    /\ Live
    /\ \/ Len(rules) + NumRules(src.namespaces) <= MaxTableRules
       \/ src = EndToEndSource /\ state = "Empty"
    /\ src.warnings = <<>> \/ Len(warnings) + Len(src.warnings) <= MaxWarnings
    /\ LET r == add_source(self, src)
       IN  /\ call' = [op |-> "add_source", src |-> src, result |-> r.err, ok |-> r.ok]
           /\ ctx' = contexts(self, r.self, src)
           /\ IF r.ok
              THEN state' = "Accumulating" /\ Becomes(r.self)
              ELSE state' = "Dropped" /\ Becomes(new)
    /\ UNCHANGED <<artifact, wasm_file, scan, fn_in, fn_out>>

from_binary_propagated(valid) == IF valid THEN "ok" ELSE "err"

\* wasmtime::Module::from_binary(..).unwrap(): the compiled module, or a
\* panic when the generated binary is not a valid module.
from_binary_unwrap(valid) == IF valid THEN "ok" ELSE "panic"

build_rules_reversed(c) ==
    [built |-> TRUE, ident_pool |-> c.ident_pool, patterns |-> <<>>,
     rules |-> [i \in 1..Len(c.rules) |-> c.rules[Len(c.rules) + 1 - i]],
     main_fn |-> c.main_fn]

\* The CompiledRules build() returns: the identifier pool and the rule table
\* of the session, the module, and an empty pattern table.
build(c) ==
    [built |-> TRUE, ident_pool |-> c.ident_pool, patterns |-> <<>>,
     rules |-> c.rules, main_fn |-> c.main_fn]

\* compiler.build(): consumes the session.  valid says whether the binary
\* the generator produced is a valid module.
Build(valid) ==
    /\ Live
    /\ LET compiled == from_binary_unwrap(valid)
       IN  /\ artifact' = IF compiled = "ok" THEN build(self) ELSE artifact
           /\ state' = CASE compiled = "ok" -> "Built"
                          [] compiled = "panic" -> "Aborted"
                          [] OTHER -> "Dropped"
           /\ call' = [op |-> "build", src |-> SyntaxErrorSource,
                       result |-> IF compiled = "ok" THEN Ok(new).err
                                  ELSE Err(new, compiled, "", <<>>).err,
                       ok |-> compiled = "ok"]
    /\ Becomes(new)
    /\ UNCHANGED <<wasm_file, scan, ctx, fn_in, fn_out>>

\* compiler.emit_wasm_file(path): consumes the session; writing the file
\* can fail.
EmitWasmFile(io_ok) ==
    /\ Live
    /\ wasm_file' = IF io_ok THEN [written |-> TRUE, module |-> main_fn] ELSE wasm_file
    /\ state' = "Emitted"
    /\ Becomes(new)
    /\ call' = [op |-> "emit_wasm_file", src |-> SyntaxErrorSource,
                result |-> IF io_ok THEN Ok(new).err ELSE Err(new, "io_error", "", <<>>).err,
                ok |-> io_ok]
    /\ UNCHANGED <<artifact, scan, ctx, fn_in, fn_out>>

\* A scan calls the entry function of the artifact's module.
ScanStart ==
    /\ artifact.built
    /\ scan.status # "running"
    /\ scan' = [status |-> "running", pc |-> 1, matches |-> <<>>, log |-> <<>>]
    /\ UNCHANGED <<state, sym_tbl, ident_pool, rules, patterns, warnings, main_fn,
                   call, artifact, wasm_file, ctx, fn_in, fn_out>>

\* The entry function runs its next block.
ScanStep ==
    /\ scan.status = "running"
    /\ scan.pc <= Len(artifact.main_fn)
    /\ LET block == artifact.main_fn[scan.pc]
           x == exec_block(block)
       IN  scan' = [status |-> IF x.outcome = "abort" THEN "aborted" ELSE "running",
                    pc |-> scan.pc + 1,
                    matches |-> IF x.matched THEN Append(scan.matches, block.rule_id)
                                ELSE scan.matches,
                    log |-> Append(scan.log, [rule_id |-> block.rule_id,
                                              outcome |-> x.outcome,
                                              branch |-> x.branch,
                                              value |-> x.value])]
    /\ UNCHANGED <<state, sym_tbl, ident_pool, rules, patterns, warnings, main_fn,
                   call, artifact, wasm_file, ctx, fn_in, fn_out>>

\* The entry function returns after its last block.
ScanReturn ==
    /\ scan.status = "running"
    /\ scan.pc > Len(artifact.main_fn)
    /\ scan' = [scan EXCEPT !.status = "done"]
    /\ UNCHANGED <<state, sym_tbl, ident_pool, rules, patterns, warnings, main_fn,
                   call, artifact, wasm_file, ctx, fn_in, fn_out>>

Next ==
    \/ \E src \in Sources : AddSource(src)
    \/ \E valid \in BOOLEAN : Build(valid)
    \/ \E io_ok \in BOOLEAN : EmitWasmFile(io_ok)
    \/ ScanStart
    \/ ScanStep
    \/ ScanReturn

Spec == Init /\ [][Next]_vars

(***************************************************************************)
(* Calls of the string module's exported functions on bounded arguments.   *)
(***************************************************************************)
Alphabet == {"0", "1", "9", "a", "Z", "+", "-", " ", InvalidByte}
Strings == SeqsUpTo(Alphabet, MaxStrLen)
Bases == {-1, 0, 1, 2, 8, 10, 16, 36, 37}

InitString == InitSession /\ fn_in \in [s : Strings, base : Bases] /\ fn_out = NoFnOut

CallToInt ==
    /\ fn_out.f = "none"
    /\ fn_out' = [f |-> "to_int", res |-> to_int(fn_in.s)]
    /\ UNCHANGED <<session_vars, fn_in>>

CallToIntBase ==
    /\ fn_out.f = "none"
    /\ fn_out' = [f |-> "to_int_base", res |-> to_int_base(fn_in.s, fn_in.base)]
    /\ UNCHANGED <<session_vars, fn_in>>

CallLength ==
    /\ fn_out.f = "none"
    /\ fn_out' = [f |-> "length", res |-> length(fn_in.s)]
    /\ UNCHANGED <<session_vars, fn_in>>

NextString == CallToInt \/ CallToIntBase \/ CallLength

SpecString == InitString /\ [][NextString]_vars

(***************************************************************************)
(* Properties.                                                             *)
(***************************************************************************)
\* A step of add_source: a call on a live session recorded as add_source.
AddSourceStep == Live /\ call'.op = "add_source" /\ state' \in {"Accumulating", "Dropped"}

\* C1: a failed add_source leaves the rule table and the pattern table as
\* they were before the call.
C1_FailedCallLeavesTables ==
    [][(AddSourceStep /\ ~call'.ok) => (rules' = rules /\ patterns' = patterns)]_vars

\* C2: after add_source fails with a compile error the session is still
\* usable and still holds the rules of the earlier successful calls.
C2_SessionUsableAfterCompileError ==
    [][(AddSourceStep /\ rules # <<>>
           /\ call'.result.kind \in {"compile_error", "unknown_module"})
          => (state' \in {"Empty", "Accumulating"} /\ rules' = rules /\ main_fn' = main_fn)]_vars

\* C3: once build() or emit_wasm_file() has been called, no add_source, build
\* or emit_wasm_file is applied to the session: no call is recorded and the
\* session, the artifact and the emitted file stay as they are.
C3_BuiltIsTerminal ==
    [][(state \in {"Built", "Emitted"})
          => (UNCHANGED <<state, call, artifact, wasm_file,
                          sym_tbl, ident_pool, rules, patterns, warnings, main_fn>>)]_vars

C3_Witness == state = "Built" /\ scan.status = "done" /\ Len(artifact.rules) >= 2

RECURSIVE PatternIds(_)
PatternIds(rs) ==
    IF rs = <<>> THEN <<>>
    ELSE [i \in 1..Len(Head(rs).patterns) |-> Head(rs).patterns[i][2]] \o PatternIds(Tail(rs))

\* C4: the RuleIds given so far are 0..n-1 in registration order for the n
\* rules registered, and the PatternIds are 0..m-1 in registration order for
\* the m patterns registered.
C4_DenseIds ==
    /\ Len(main_fn) = Len(rules)
    /\ \A i \in 1..Len(main_fn) : main_fn[i].rule_id = i - 1
    /\ PatternIds(rules) = [i \in 1..Len(patterns) |-> i - 1]

C4_Witness ==
    /\ state = "Accumulating"
    /\ Len(rules) = 2 /\ Len(patterns) >= 3
    /\ Len(call.src.namespaces) = 2
    /\ NumRules(call.src.namespaces) = 1

\* The position <<namespace, import>> of the first import of an unknown module.
UnknownImports(nss) ==
    {p \in (1..Len(nss)) \X (1..MaxNsImports + 1) :
        /\ p[2] <= Len(nss[p[1]].imports)
        /\ nss[p[1]].imports[p[2]].module_name \notin BUILTIN_MODULES}

FirstUnknownImport(nss) ==
    CHOOSE p \in UnknownImports(nss) :
        \A q \in UnknownImports(nss) : p[1] < q[1] \/ (p[1] = q[1] /\ p[2] <= q[2])

\* The known modules imported by the namespaces 1..i of a source.
ImportedBy(nss, i) ==
    {m \in BUILTIN_MODULES :
        \E k \in 1..i : \E j \in 1..Len(nss[k].imports) : nss[k].imports[j].module_name = m}

\* The rules of the namespaces before namespace i pass the semantic check.
RulesBeforeAreValid(tbl, nss, i) ==
    \A k \in 1..(i - 1) : \A j \in 1..Len(nss[k].rules) :
        semcheck(tbl \cup ImportedBy(nss, k), condition_types, nss[k].rules[j].condition)

\* C5: an add_source whose source imports an unknown module, after any valid
\* imports and rules, fails with the unknown-module error carrying the name
\* and the span of that import, and registers no rule of the source.
C5_UnknownImportRejected ==
    [][(/\ AddSourceStep
        /\ call'.src.parse_ok
        /\ UnknownImports(call'.src.namespaces) # {}
        /\ RulesBeforeAreValid(sym_tbl, call'.src.namespaces,
                               FirstUnknownImport(call'.src.namespaces)[1]))
          => LET nss == call'.src.namespaces
                 p == FirstUnknownImport(nss)
             IN  /\ ~call'.ok
                 /\ call'.result = [kind |-> "unknown_module",
                                    module_name |-> nss[p[1]].imports[p[2]].module_name,
                                    span |-> nss[p[1]].imports[p[2]].span]
                 /\ Len(rules') <= Len(rules)
                 /\ \A k \in 1..Len(rules') : rules'[k] = rules[k]]_vars

C5_Witness ==
    /\ state = "Dropped"
    /\ call.result.kind = "unknown_module"
    /\ call.result.span = <<2, 2>>
    /\ Len(call.src.namespaces[1].rules) = 1

\* Whether the evaluation of an expression raises undefined in some
\* sub-expression it evaluates.
RECURSIVE raises_undefined(_)
raises_undefined(expr) ==
    CASE expr.op = "call" -> call_export(expr.f, expr.s, expr.base).tag = "None"
      [] expr.op = "cmp" ->
            \/ raises_undefined(expr.l)
            \/ emit_expr(expr.l).tag = "Some" /\ raises_undefined(expr.r)
      [] expr.op = "or" ->
            \/ raises_undefined(expr.l)
            \/ catch_undef(truthy(emit_expr(expr.l))) = Some(0) /\ raises_undefined(expr.r)
      [] expr.op = "and" ->
            \/ raises_undefined(expr.l)
            \/ catch_undef(truthy(emit_expr(expr.l))) = Some(1) /\ raises_undefined(expr.r)
      [] OTHER -> FALSE

\* The rule of the k-th block run took the except branch of the outer
\* handler, its condition's value is 0, rule_match was not called for it and
\* the run went on.
ResolvedToNonMatching(k) ==
    /\ scan.log[k].branch = "except"
    /\ scan.log[k].value = 0
    /\ scan.log[k].outcome = "next"
    /\ scan.log[k].rule_id \notin Range(scan.matches)

RECURSIVE MatchingIds(_)
MatchingIds(log) ==
    IF log = <<>> THEN <<>>
    ELSE (IF Head(log).value # 0 THEN <<Head(log).rule_id>> ELSE <<>>) \o MatchingIds(Tail(log))

\* The blocks run so far are those of the rules 0, 1, ... in order, each run
\* once, and rule_match got the ids of those with a non-zero value.
InDeclarationOrder ==
    /\ \A k \in 1..Len(scan.log) : scan.log[k].rule_id = k - 1
    /\ scan.matches = MatchingIds(scan.log)
    /\ \A i, j \in 1..Len(scan.matches) : i < j => scan.matches[i] < scan.matches[j]

\* C7: a run of the entry function evaluates every compiled rule once, in
\* declaration order, and calls rule_match once for each rule whose condition
\* value is non-zero, with increasing RuleIds.
C7_EveryRuleEvaluatedOnce ==
    scan.status \in {"done", "aborted"} =>
        /\ Len(scan.log) = Len(artifact.rules)
        /\ \A k \in 1..Len(scan.log) : scan.log[k].outcome = "next"
        /\ InDeclarationOrder

\* A run that returns has evaluated every rule in order.
ReturnedRunInOrder ==
    scan.status = "done" => Len(scan.log) = Len(artifact.rules) /\ InDeclarationOrder

\* The numeral s denotes in a base: an optional sign, then digits of the base.
DigitOf(c) ==
    IF \E i \in 1..36 : LowerDigits[i] = c \/ UpperDigits[i] = c
    THEN (CHOOSE i \in 1..36 : LowerDigits[i] = c \/ UpperDigits[i] = c) - 1
    ELSE 99

Unsigned(s) == IF s # <<>> /\ s[1] \in {"+", "-"} THEN SubSeq(s, 2, Len(s)) ELSE s

IsNumeral(s, base) ==
    /\ Unsigned(s) # <<>>
    /\ \A i \in 1..Len(Unsigned(s)) : DigitOf(Unsigned(s)[i]) < base

RECURSIVE Positional(_, _, _)
Positional(digits, base, i) ==
    IF i > Len(digits) THEN 0
    ELSE DigitOf(digits[i]) * Pow(base, Len(digits) - i) + Positional(digits, base, i + 1)

NumeralValue(s, base) ==
    (IF s[1] = "-" THEN -1 ELSE 1) * Positional(Unsigned(s), base, 1)

ComparedTo(s, base, k) == Cmp("==", Call("to_int_base", s, base), IntLit(k))

\* C8: string.to_int(s, base) is the value of the numeral s in that base for
\* a base in 2..36, undefined when s is no such numeral, and undefined for
\* every s when the base is below 2 or above 36; it never panics, and a rule
\* comparing an undefined result to a constant does not match.
C8_ToIntBase ==
    fn_out.f = "to_int_base" =>
        /\ fn_out.res.tag # "Panic"
        /\ fn_in.base \in 2..36 /\ IsNumeral(fn_in.s, fn_in.base)
              => fn_out.res = Some(NumeralValue(fn_in.s, fn_in.base))
        /\ fn_in.base \in 2..36 /\ ~IsNumeral(fn_in.s, fn_in.base) => fn_out.res = None
        /\ fn_in.base \notin 2..36 => fn_out.res = None
        /\ fn_out.res = None =>
              \A k \in {-9, 0, 9} :
                  ~exec_block(rule_block(ComparedTo(fn_in.s, fn_in.base, k), 0)).matched

C8_Witness ==
    /\ fn_out.f = "to_int_base"
    /\ fn_in.base = 36
    /\ fn_in.s = <<"-", "Z", "a">>
    /\ fn_out.res = Some(-1270)

\* What a call of an exported function is to return: the length, or the
\* value of the numeral, or undefined.
Expected(f, s, base) ==
    CASE f = "length" -> Some(Len(s))
      [] f = "to_int" -> IF IsNumeral(s, 10) THEN Some(NumeralValue(s, 10)) ELSE None
      [] f = "to_int_base" ->
            IF base \in 2..36 /\ IsNumeral(s, base) THEN Some(NumeralValue(s, base)) ELSE None

IsComparison(cond) ==
    cond.op = "cmp" /\ cond.l.op = "call" /\ cond.r.op = "int"

ComparisonTrue(cond) ==
    LET v == Expected(cond.l.f, cond.l.s, cond.l.base)
    IN  v.tag = "Some" /\ compare(cond.rel, v.v, cond.r.v)

\* C9: a scan of rules whose conditions compare string.length / string.to_int
\* results with integer constants reports as matching exactly the rules whose
\* comparison is true, undefined results counting as non-matching.
C9_ComparisonRulesMatch ==
    (/\ scan.status \in {"done", "aborted"}
     /\ \A i \in 1..Len(artifact.main_fn) : IsComparison(artifact.main_fn[i].try))
        => /\ scan.status = "done"
           /\ Range(scan.matches) =
                 {i - 1 : i \in {j \in 1..Len(artifact.main_fn) :
                                    ComparisonTrue(artifact.main_fn[j].try)}}

\* The scan of tests::end2end: rule_1, rule_2, rule_5, rule_6, rule_8 and
\* rule_9 match, six rules.
EndToEndSixMatches ==
    (call.op = "build" /\ Len(artifact.rules) = 10 /\ scan.status = "done")
        => scan.matches = <<0, 1, 4, 5, 7, 8>>

\* C10: the artifact's pattern table has one entry per pattern registered
\* and every PatternId of a rule's pair list is an index into it.
C10_ArtifactPatternTable ==
    artifact.built =>
        /\ Len(artifact.patterns) = Len(PatternIds(artifact.rules))
        /\ \A id \in Range(PatternIds(artifact.rules)) : id \in 0..(Len(artifact.patterns) - 1)

\* A namespace of the source imports the same known module more than once.
HasDuplicateImport(nss) ==
    \E i \in 1..Len(nss) : \E j, k \in 1..Len(nss[i].imports) :
        /\ j < k
        /\ nss[i].imports[j].module_name = nss[i].imports[k].module_name
        /\ nss[i].imports[j].module_name \in BUILTIN_MODULES

\* C11: an add_source whose namespace imports the same known module more than
\* once (all imports known, all rules valid) succeeds, records a
\* duplicate-import warning in the session's warnings, and compiles the rules
\* of the source.
C11_DuplicateImportWarned ==
    [][(/\ AddSourceStep
        /\ call'.src.parse_ok
        /\ HasDuplicateImport(call'.src.namespaces)
        /\ UnknownImports(call'.src.namespaces) = {}
        /\ RulesBeforeAreValid(sym_tbl, call'.src.namespaces,
                               Len(call'.src.namespaces) + 1))
          => /\ call'.ok
             /\ Len(rules') = Len(rules) + NumRules(call'.src.namespaces)
             /\ Len(warnings') > Len(warnings)
             /\ "duplicate_import" \in Range(warnings')]_vars

\* The types of the conditions of the rules of the namespaces i.. of a source,
\* in declaration order, each under the symbol table its namespace sees.
RECURSIVE ConditionTypes(_, _, _)
ConditionTypes(tbl, nss, i) ==
    IF i > Len(nss) THEN <<>>
    ELSE [j \in 1..Len(nss[i].rules) |->
             type_of(tbl \cup ImportedBy(nss, i), nss[i].rules[j].condition)]
         \o ConditionTypes(tbl, nss, i + 1)

\* C12: when every rule of a source has a condition of type Bool, Integer,
\* Float or String, add_source succeeds, registers and compiles every rule,
\* and adds one warning for each rule whose condition is Integer, Float or
\* String and none for a Bool one; when some condition has another type,
\* add_source fails with a compile error.
C12_CoercionWarning ==
    [][(/\ AddSourceStep
        /\ call'.src.parse_ok
        /\ UnknownImports(call'.src.namespaces) = {}
        /\ ~HasDuplicateImport(call'.src.namespaces))
          => LET types == ConditionTypes(sym_tbl, call'.src.namespaces, 1)
                 coerced == {k \in 1..Len(types) : types[k] \in {"Integer", "Float", "String"}}
                 other == {k \in 1..Len(types) :
                              types[k] \notin {"Bool", "Integer", "Float", "String"}}
             IN  IF other = {}
                 THEN /\ call'.ok
                      /\ Len(rules') = Len(rules) + Len(types)
                      /\ Len(main_fn') = Len(main_fn) + Len(types)
                      /\ Len(warnings') =
                            Len(warnings) + Len(call'.src.warnings) + Cardinality(coerced)
                 ELSE /\ ~call'.ok
                      /\ call'.result.kind = "compile_error"]_vars

C12_Witness ==
    /\ state = "Accumulating"
    /\ call.ok
    /\ \E i \in 1..Len(call.src.namespaces[1].rules) :
          call.src.namespaces[1].rules[i].condition.op = "str"
    /\ Len(rules) = 2
    /\ warnings = <<"non_boolean_as_boolean", "non_boolean_as_boolean">>

NoDuplicates(pool) == \A i, j \in 1..Len(pool) : pool[i] = pool[j] => i = j

IsPrefix(p, q) == Len(p) <= Len(q) /\ \A i \in 1..Len(p) : q[i] = p[i]

\* C13: the pool holds every text once, so that interning a text again gives
\* the handle given the first time and distinct texts have distinct handles;
\* the handles of the rules and patterns an add_source registers resolve to
\* their identifiers; while the session lives the pool is only extended, the
\* handles of the rules registered before keep their texts, and build() hands
\* the pool to the artifact as it is.
C13_InterningStable ==
    [][/\ NoDuplicates(ident_pool')
       /\ \A i \in 1..Len(ident_pool') :
             /\ get_or_intern(ident_pool', ident_pool'[i]) = [pool |-> ident_pool', id |-> i - 1]
             /\ resolve(ident_pool', i - 1) = Some(ident_pool'[i])
       /\ (state \in {"Empty", "Accumulating"} /\ state' \in {"Empty", "Accumulating"})
             => /\ IsPrefix(ident_pool, ident_pool')
                /\ IsPrefix(rules, rules')
       /\ (AddSourceStep /\ call'.ok)
             => LET rs == FlatRules(call'.src.namespaces)
                IN  \A k \in 1..Len(rs) :
                        LET cr == rules'[Len(rules) + k]
                        IN  /\ resolve(ident_pool', cr.ident) = Some(rs[k].identifier)
                            /\ Len(cr.patterns) = Len(rs[k].patterns)
                            /\ \A i \in 1..Len(cr.patterns) :
                                  resolve(ident_pool', cr.patterns[i][1]) = Some(rs[k].patterns[i])
       /\ (state \in {"Empty", "Accumulating"} /\ state' = "Built")
             => artifact'.ident_pool = ident_pool]_vars

C13_Witness ==
    /\ state = "Accumulating"
    /\ Len(rules) = 2
    /\ NumRules(call.src.namespaces) = 1
    /\ rules[1].ident = rules[2].ident
    /\ rules[1].patterns # <<>>
    /\ Len(ident_pool) = 2

\* A step of build(): a call on a live session recorded as build.
BuildStep == Live /\ call'.op = "build"

\* C14: build() either returns Ok with the artifact, or panics when the
\* generated binary is not a valid module: then there is no artifact and no
\* Err is returned to the caller.
C14_BuildOkOrFatal ==
    [][BuildStep
          => \/ /\ call'.ok
                /\ state' = "Built"
                /\ artifact'.built
             \/ /\ ~call'.ok
                /\ call'.result.kind = "panic"
                /\ state' = "Aborted"
                /\ ~artifact'.built
                /\ artifact' = artifact]_vars

C14_Witness ==
    /\ state = "Aborted"
    /\ call.op = "build"
    /\ call.result.kind = "panic"
    /\ ~artifact.built

\* C15: every Context starts with an empty handler stack and raise_emitted
\* false; every instruction of the rule's condition is emitted with a
\* non-empty stack, so every raise has an enclosing handler; the stack is
\* empty again when the rule's compilation ends; and every frame on the stack
\* while a rule is compiled is a frame of that rule.
C15_HandlerStackPerRule ==
    \A k \in 1..Len(ctx) :
        /\ ctx[k].start.exception_handler_stack = <<>>
        /\ ~ctx[k].start.raise_emitted
        /\ ctx[k].end.exception_handler_stack = <<>>
        /\ \A i \in 1..Len(ctx[k].log) :
              /\ ctx[k].log[i].part = "condition" => ctx[k].log[i].stack # <<>>
              /\ ctx[k].log[i].raise => ctx[k].log[i].stack # <<>>
              /\ \A f \in Range(ctx[k].log[i].stack) : f.block[1] = ctx[k].rule_id
        /\ \A j \in 1..Len(ctx) : j # k => ctx[j].rule_id # ctx[k].rule_id

C15_Witness ==
    /\ Len(ctx) = 2
    /\ Len(rules) = 2
    /\ \E k \in 1..Len(ctx) : \E i \in 1..Len(ctx[k].log) :
          Len(ctx[k].log[i].stack) = 2 /\ ctx[k].log[i].raise

PatternTexts == {"$a", "$b", "$c"}

\* C16: the pair list of a rule has one entry for each declared pattern, in
\* declaration order, with consecutive PatternIds; two declarations of one
\* identifier give two entries with the same IdentId and different
\* PatternIds; and the lookup of a pattern identifier in the current rule
\* gives the PatternId of its first declaration, and for no identifier a
\* PatternId of another rule.
C16_PatternPairs ==
    call.op = "add_source" =>
        \A k \in 1..Len(ctx) :
            LET decl == FlatRules(call.src.namespaces)[k].patterns
                context == ctx[k].start
                pairs == context.current_rule.patterns
                first(i) == CHOOSE j \in 1..i : decl[j] = decl[i] /\ \A h \in 1..(j - 1) : decl[h] # decl[i]
            IN  /\ Len(pairs) = Len(decl)
                /\ \A i \in 1..Len(pairs) :
                      /\ resolve(context.ident_pool, pairs[i][1]) = Some(decl[i])
                      /\ i > 1 => pairs[i][2] = pairs[i - 1][2] + 1
                      /\ get_pattern_from_current_rule(context, decl[i]) = Some(pairs[first(i)][2])
                /\ \A i, j \in 1..Len(pairs) :
                      (i # j /\ decl[i] = decl[j])
                          => (pairs[i][1] = pairs[j][1] /\ pairs[i][2] # pairs[j][2])
                /\ \A text \in PatternTexts :
                      LET found == get_pattern_from_current_rule(context, text)
                      IN  IF text \in Range(decl)
                          THEN found.tag = "Some" /\ found.v \in {pairs[i][2] : i \in 1..Len(pairs)}
                          ELSE found = Panic

C16_Witness ==
    /\ state = "Accumulating"
    /\ Len(rules) = 2
    /\ Len(ctx) = 1
    /\ Len(ctx[1].start.current_rule.patterns) = 2
    /\ ctx[1].start.current_rule.patterns[1][1] = ctx[1].start.current_rule.patterns[2][1]
    /\ ctx[1].start.current_rule.patterns[1][2] = 1
    /\ rules[1].patterns # <<>>
    /\ rules[1].patterns[1][1] = ctx[1].start.current_rule.patterns[1][1]

\* The rule table entry a RuleId names in the artifact is there, and its
\* block is the one the scan ran.
ScanReportsTableIndex ==
    /\ \A k \in 1..Len(scan.log) :
          /\ scan.log[k].rule_id = artifact.main_fn[k].rule_id
          /\ scan.log[k].rule_id = k - 1
    /\ \A r \in Range(scan.matches) :
          /\ r + 1 \in 1..Len(artifact.rules)
          /\ artifact.main_fn[r + 1].rule_id = r
          /\ resolve(artifact.ident_pool, artifact.rules[r + 1].ident).tag = "Some"
    /\ Len(artifact.rules) = 10
          => \A r \in Range(scan.matches) :
                LET rule == FlatRules(EndToEndSource.namespaces)[r + 1]
                IN  /\ resolve(artifact.ident_pool, artifact.rules[r + 1].ident)
                          = Some(rule.identifier)
                    /\ artifact.main_fn[r + 1].try = rule.condition

\* From the source to the artifact: the block add_source emits for a rule
\* carries the index of the rule's entry in the rule table, whose ident
\* resolves to the rule's name; later calls leave the entries and their
\* blocks in place; build() hands the table, the pool and the blocks over as
\* they are; a scan does not change the artifact.
RuleIdChain ==
    /\ (AddSourceStep /\ call'.ok)
          => /\ IsPrefix(rules, rules') /\ IsPrefix(main_fn, main_fn')
             /\ IsPrefix(ident_pool, ident_pool')
             /\ LET rs == FlatRules(call'.src.namespaces)
                IN  /\ Len(rules') = Len(rules) + Len(rs)
                    /\ Len(main_fn') = Len(rules')
                    /\ \A k \in 1..Len(rs) :
                          LET i == Len(rules) + k
                          IN  /\ main_fn'[i].rule_id = i - 1
                              /\ main_fn'[i].try = rs[k].condition
                              /\ resolve(ident_pool', rules'[i].ident) = Some(rs[k].identifier)
    /\ (BuildStep /\ call'.ok)
          => /\ artifact'.rules = rules
             /\ artifact'.ident_pool = ident_pool
             /\ artifact'.main_fn = main_fn
    /\ artifact.built => artifact' = artifact

\* C17: the RuleId a rule's block passes to rule_match is the index of the
\* rule's entry in the rule table, build() carries the table over unchanged,
\* and for every RuleId r a scan reports, the r-th entry of the artifact's
\* table is the rule whose condition was evaluated and its ident resolves in
\* the artifact's pool to the rule's name.
C17_RuleIdIsTableIndex == []ScanReportsTableIndex /\ [][RuleIdChain]_vars

C17_Witness ==
    /\ scan.status = "done"
    /\ scan.matches = <<0, 1>>
    /\ Len(artifact.rules) = 2
    /\ Len(ctx) = 1
    /\ artifact.rules[1].ident # artifact.rules[2].ident

\* C18: string.to_int(s) returns the integer the decimal numeral s denotes,
\* and undefined when s is not valid text or not a decimal numeral;
\* string.length(s) returns the length of s; neither panics.
C18_StringFunctionsTotal ==
    /\ fn_out.f = "to_int" =>
          /\ fn_out.res.tag # "Panic"
          /\ fn_out.res = Expected("to_int", fn_in.s, 10)
    /\ fn_out.f = "length" =>
          /\ fn_out.res.tag # "Panic"
          /\ fn_out.res = Some(Len(fn_in.s))

\* What holds of the code: string.length is total, and string.to_int
\* returns the value of a decimal numeral and undefined for invalid text.
StringFunctionsOnValidInput ==
    /\ fn_out.f = "length" => fn_out.res = Some(Len(fn_in.s))
    /\ (fn_out.f = "to_int" /\ to_str(fn_in.s).tag = "None") => fn_out.res = None
    /\ (fn_out.f = "to_int" /\ IsNumeral(fn_in.s, 10))
          => fn_out.res = Some(NumeralValue(fn_in.s, 10))

\* C19: while the session lives its symbol table only grows; a successful
\* add_source leaves in it the modules it had and those the source imports;
\* and the call succeeds exactly when every rule passes the semantic check
\* under the table of the session as it was before the call together with
\* the imports of the rule's own namespace and of the namespaces before it:
\* a module imported once is resolvable for the rules of later namespaces
\* and later calls that do not import it.
C19_SymbolTableGrows ==
    [][/\ (state \in {"Empty", "Accumulating"} /\ state' \in {"Empty", "Accumulating"})
             => sym_tbl \subseteq sym_tbl'
       /\ (AddSourceStep /\ call'.src.parse_ok /\ UnknownImports(call'.src.namespaces) = {})
             => LET nss == call'.src.namespaces
                IN  /\ call'.ok <=> RulesBeforeAreValid(sym_tbl, nss, Len(nss) + 1)
                    /\ call'.ok => sym_tbl' = sym_tbl \cup ImportedBy(nss, Len(nss))]_vars

C19_Witness ==
    /\ state = "Accumulating"
    /\ call.ok
    /\ sym_tbl = {"string"}
    /\ \A i \in 1..Len(call.src.namespaces) : call.src.namespaces[i].imports = <<>>
    /\ NumRules(call.src.namespaces) = 1
    /\ Len(rules) = 2
    /\ main_fn[2].try.op = "cmp"
    /\ main_fn[2].try.l.op = "call"
    /\ main_fn[2].try.l.module = "string"

====
